---------------------------- MODULE Spec2Model ----------------------------
(***************************************************************************)
(* A model of querable: the two reference tokenizers (src/src/default.rs), *)
(* the recursive resolver Queryable::query (src/src/types.rs), the entry   *)
(* point lookup and the tree value of the test suite (src/src/lib.rs).     *)
(*                                                                         *)
(* A string is a sequence of one-character strings; indices into strings   *)
(* are 0-based and ranges half-open, as in the Rust source.                *)
(***************************************************************************)
EXTENDS Integers, Sequences, FiniteSets, TLC

(***************************************************************************)
(* Bounds of the model.                                                    *)
(***************************************************************************)
\* longest path drawn character by character from Chars
MaxLen == 4
\* most steps of a path rendered from a sequence of steps
MaxSteps == 3

(***************************************************************************)
(* Strings.                                                                *)
(***************************************************************************)
Chars == {"a", ".", "/", "[", "]", "0", " "}

RECURSIVE StringsUpTo(_)
StringsUpTo(n) ==
  IF n = 0 THEN {<<>>}
  ELSE LET shorter == StringsUpTo(n - 1)
       IN  shorter \cup {Append(s, c) : s \in {t \in shorter : Len(t) = n - 1}, c \in Chars}

\* Option<usize> returned by str::find
NoneIdx == -1

\* char::is_whitespace, on the characters a path of the model can hold
IsWhitespace(c) == c \in {" ", "\t", "\n", "\r"}

IsDigit(c) == c \in {"0", "1", "2", "3", "4", "5", "6", "7", "8", "9"}

DigitVal(c) ==
  CASE c = "0" -> 0 [] c = "1" -> 1 [] c = "2" -> 2 [] c = "3" -> 3 [] c = "4" -> 4
    [] c = "5" -> 5 [] c = "6" -> 6 [] c = "7" -> 7 [] c = "8" -> 8 [] c = "9" -> 9

DigitChar(d) ==
  CASE d = 0 -> "0" [] d = 1 -> "1" [] d = 2 -> "2" [] d = 3 -> "3" [] d = 4 -> "4"
    [] d = 5 -> "5" [] d = 6 -> "6" [] d = 7 -> "7" [] d = 8 -> "8" [] d = 9 -> "9"

\* &s[from..to]
Slice(s, from, to) == SubSeq(s, from + 1, to)

\* s.find(c): the 0-based index of the first occurrence of c
FindChar(s, c) ==
  IF \E i \in 1..Len(s) : s[i] = c
  THEN (CHOOSE i \in 1..Len(s) : s[i] = c /\ \A j \in 1..(i - 1) : s[j] # c) - 1
  ELSE NoneIdx

\* s.find(char::is_whitespace)
FindWhitespace(s) ==
  IF \E i \in 1..Len(s) : IsWhitespace(s[i])
  THEN (CHOOSE i \in 1..Len(s) :
          IsWhitespace(s[i]) /\ \A j \in 1..(i - 1) : ~IsWhitespace(s[j])) - 1
  ELSE NoneIdx

StartsWith(s, c) == Len(s) > 0 /\ s[1] = c
EndsWith(s, c) == Len(s) > 0 /\ s[Len(s)] = c

(***************************************************************************)
(* Options, and the error types of src/src/error.rs.                       *)
(***************************************************************************)
None == [some |-> FALSE, v |-> <<>>]
Some(s) == [some |-> TRUE, v |-> s]

\* KeyError
KeyEmptyKey == [tag |-> "EmptyKey", text |-> <<>>]
KeyParseError(s) == [tag |-> "ParseError", text |-> s]

\* IndexError; IntError carries the kind of the ParseIntError
IndexIntError(kind) == [tag |-> "IntError", text |-> <<>>, kind |-> kind]
IndexParseError(s) == [tag |-> "ParseError", text |-> s, kind |-> ""]

\* QueryKind
KindArray == "Array"
KindDictionary == "Dictionary"

\* Error: every variant in one record shape
NoError == [tag |-> "", text |-> <<>>, idx |-> 0, sub |-> "", kind |-> "",
            expected |-> "", found |-> ""]
KeyNotExist(s) == [NoError EXCEPT !.tag = "KeyNotExist", !.text = s]
IndexNotExist(i) == [NoError EXCEPT !.tag = "IndexNotExist", !.idx = i]
EmptyPath(k) == [NoError EXCEPT !.tag = "EmptyPath", !.kind = k]
UnknownType(s) == [NoError EXCEPT !.tag = "UnknownType", !.text = s]
TypeError(s, e, f) ==
  [NoError EXCEPT !.tag = "TypeError", !.text = s, !.expected = e, !.found = f]

\* impl From<KeyError> for Error
FromKeyError(e) == [NoError EXCEPT !.tag = "KeyError", !.sub = e.tag, !.text = e.text]

\* impl From<IndexError> for Error
FromIndexError(e) ==
  [NoError EXCEPT !.tag = "IndexError", !.sub = e.tag, !.text = e.text, !.kind = e.kind]

(***************************************************************************)
(* The tokenizers of src/src/default.rs.                                   *)
(***************************************************************************)
\* Result<State, KeyError>
StateOk(cur, next) == [ok |-> TRUE, current |-> cur, next |-> next, err |-> KeyEmptyKey]
StateErr(e) == [ok |-> FALSE, current |-> None, next |-> None, err |-> e]

\* Result<usize, IndexError>
IndexOk(n) == [ok |-> TRUE, index |-> n, err |-> IndexParseError(<<>>)]
IndexErr(e) == [ok |-> FALSE, index |-> 0, err |-> e]

RECURSIVE DigitsValue(_)
DigitsValue(s) ==
  IF Len(s) = 0 THEN 0
  ELSE 10 * DigitsValue(SubSeq(s, 1, Len(s) - 1)) + DigitVal(s[Len(s)])

\* usize::MAX of a 64-bit target, 18446744073709551615, digit by digit
UsizeMaxDigits ==
  <<"1", "8", "4", "4", "6", "7", "4", "4", "0", "7",
    "3", "7", "0", "9", "5", "5", "1", "6", "1", "5">>

RECURSIVE StripZeros(_)
StripZeros(s) == IF Len(s) > 0 /\ s[1] = "0" THEN StripZeros(Tail(s)) ELSE s

\* the digits before the first character that is no digit
RECURSIVE LeadingDigits(_)
LeadingDigits(s) ==
  IF Len(s) > 0 /\ IsDigit(s[1]) THEN <<s[1]>> \o LeadingDigits(Tail(s)) ELSE <<>>

\* checked_mul / checked_add failing: the number the digits write is above usize::MAX
ExceedsUsize(digits) ==
  LET d == StripZeros(digits)
      n == Len(UsizeMaxDigits)
  IN  \/ Len(d) > n
      \/ /\ Len(d) = n
         /\ \E i \in 1..n : /\ DigitVal(d[i]) > DigitVal(UsizeMaxDigits[i])
                              /\ \A j \in 1..(i - 1) : d[j] = UsizeMaxDigits[j]

\* str::parse::<usize>: an optional '+', then one or more decimal digits that
\* write a number up to usize::MAX; the characters are read left to right, and the
\* first one that is no digit, or that takes the number above usize::MAX, decides
\* the error
ParseUsize(s) ==
  LET digits == IF StartsWith(s, "+") THEN Tail(s) ELSE s
      lead == LeadingDigits(digits)
  IN  IF Len(s) = 0 THEN IndexErr(IndexIntError("Empty"))
      ELSE IF Len(digits) = 0 THEN IndexErr(IndexIntError("InvalidDigit"))
      ELSE IF ExceedsUsize(lead) THEN IndexErr(IndexIntError("PosOverflow"))
      ELSE IF Len(lead) < Len(digits) THEN IndexErr(IndexIntError("InvalidDigit"))
      ELSE IndexOk(DigitsValue(digits))

DefaultIndexParse(key) ==
  IF StartsWith(key, "[") /\ EndsWith(key, "]") /\ Len(key) > 2
  THEN ParseUsize(Slice(key, 1, Len(key) - 1))
  ELSE IndexErr(IndexParseError(key))

\* s.rfind(c): the 0-based index of the last occurrence of c
RFindChar(s, c) ==
  IF \E i \in 1..Len(s) : s[i] = c
  THEN (CHOOSE i \in 1..Len(s) : s[i] = c /\ \A j \in (i + 1)..Len(s) : s[j] # c) - 1
  ELSE NoneIdx

\* dict_parse splitting at the last '.' instead of the first
DefaultDictParseLastDot(key) ==
  IF Len(key) = 0 THEN StateErr(KeyEmptyKey)
  ELSE LET size == Len(key)
           idx == RFindChar(key, ".")
       IN  IF idx = 0 THEN StateErr(KeyEmptyKey)
           ELSE IF idx # NoneIdx
           THEN LET current == Slice(key, 0, idx)
                IN  IF FindWhitespace(current) # NoneIdx
                    THEN StateErr(KeyParseError(current))
                    ELSE LET pivot == idx + 1
                         IN  StateOk(Some(current), Some(Slice(key, pivot, size)))
           ELSE StateOk(Some(Slice(key, 0, size)), None)

\* dict_parse answering the empty path with an empty state instead of an error
DefaultDictParseEmptyState(key) ==
  IF Len(key) = 0 THEN StateOk(None, None)
  ELSE LET size == Len(key)
           idx == FindChar(key, ".")
       IN  IF idx = 0 THEN StateErr(KeyEmptyKey)
           ELSE IF idx # NoneIdx
           THEN LET current == Slice(key, 0, idx)
                IN  IF FindWhitespace(current) # NoneIdx
                    THEN StateErr(KeyParseError(current))
                    ELSE LET pivot == idx + 1
                         IN  StateOk(Some(current), Some(Slice(key, pivot, size)))
           ELSE StateOk(Some(Slice(key, 0, size)), None)

\* dict_parse handing the whole key on as the remainder
DefaultDictParseKeepsKey(key) ==
  IF Len(key) = 0 THEN StateErr(KeyEmptyKey)
  ELSE LET size == Len(key)
           idx == FindChar(key, ".")
       IN  IF idx = 0 THEN StateErr(KeyEmptyKey)
           ELSE IF idx # NoneIdx
           THEN LET current == Slice(key, 0, idx)
                IN  IF FindWhitespace(current) # NoneIdx
                    THEN StateErr(KeyParseError(current))
                    ELSE StateOk(Some(current), Some(Slice(key, 0, size)))
           ELSE StateOk(Some(Slice(key, 0, size)), None)

DefaultDictParse(key) ==
  IF Len(key) = 0 THEN StateErr(KeyEmptyKey)
  ELSE LET size == Len(key)
           idx == FindChar(key, ".")
       IN  IF idx = 0 THEN StateErr(KeyEmptyKey)
           ELSE IF idx # NoneIdx
           THEN LET current == Slice(key, 0, idx)
                IN  IF FindWhitespace(current) # NoneIdx
                    THEN StateErr(KeyParseError(current))
                    ELSE LET pivot == idx + 1
                         IN  StateOk(Some(current), Some(Slice(key, pivot, size)))
           ELSE StateOk(Some(Slice(key, 0, size)), None)

\* index_parse reading a bare number as a position counted from 1
SlashIndexParseOneBased(key) ==
  LET parsed == ParseUsize(key)
  IN  IF parsed.ok /\ parsed.index > 0 THEN IndexOk(parsed.index - 1) ELSE parsed

SlashIndexParse(key) == ParseUsize(key)

\* dict_parse without the arm for "//": the empty step is returned as a step
SlashDictParseEmptyStep(key) ==
  IF Len(key) = 0 THEN StateErr(KeyEmptyKey)
  ELSE IF ~StartsWith(key, "/") THEN StateErr(KeyParseError(key))
  ELSE LET size == Len(key)
           idx == FindChar(Slice(key, 1, size), "/")
       IN  IF idx # NoneIdx
           THEN LET pivot == idx + 1
                    current == Slice(key, 1, pivot)
                IN  IF FindWhitespace(current) # NoneIdx
                    THEN StateErr(KeyParseError(current))
                    ELSE StateOk(Some(current), Some(Slice(key, pivot, size)))
           ELSE StateOk(Some(Slice(key, 1, size)), None)

\* dict_parse reading a path without its leading '/' as if it had one
SlashDictParseLenient(key) ==
  IF Len(key) = 0 THEN StateErr(KeyEmptyKey)
  ELSE LET from == IF StartsWith(key, "/") THEN 1 ELSE 0
           size == Len(key)
           idx == FindChar(Slice(key, from, size), "/")
       IN  IF idx = 0 THEN StateErr(KeyEmptyKey)
           ELSE IF idx # NoneIdx
           THEN LET pivot == idx + from
                    current == Slice(key, from, pivot)
                IN  IF FindWhitespace(current) # NoneIdx
                    THEN StateErr(KeyParseError(current))
                    ELSE StateOk(Some(current), Some(Slice(key, pivot, size)))
           ELSE StateOk(Some(Slice(key, from, size)), None)

\* dict_parse dropping the separator from the remainder, as the '.' syntax does
SlashDictParseDropsSlash(key) ==
  IF Len(key) = 0 THEN StateErr(KeyEmptyKey)
  ELSE IF ~StartsWith(key, "/") THEN StateErr(KeyParseError(key))
  ELSE LET size == Len(key)
           idx == FindChar(Slice(key, 1, size), "/")
       IN  IF idx = 0 THEN StateErr(KeyEmptyKey)
           ELSE IF idx # NoneIdx
           THEN LET pivot == idx + 1
                    current == Slice(key, 1, pivot)
                IN  IF FindWhitespace(current) # NoneIdx
                    THEN StateErr(KeyParseError(current))
                    ELSE StateOk(Some(current), Some(Slice(key, pivot + 1, size)))
           ELSE StateOk(Some(Slice(key, 1, size)), None)

\* dict_parse answering "/" with a state that holds no step
SlashDictParseNoStep(key) ==
  IF Len(key) = 0 THEN StateErr(KeyEmptyKey)
  ELSE IF ~StartsWith(key, "/") THEN StateErr(KeyParseError(key))
  ELSE LET size == Len(key)
           idx == FindChar(Slice(key, 1, size), "/")
       IN  IF idx = 0 THEN StateErr(KeyEmptyKey)
           ELSE IF idx # NoneIdx
           THEN LET pivot == idx + 1
                    current == Slice(key, 1, pivot)
                IN  IF FindWhitespace(current) # NoneIdx
                    THEN StateErr(KeyParseError(current))
                    ELSE StateOk(Some(current), Some(Slice(key, pivot, size)))
           ELSE IF size = 1 THEN StateOk(None, None)
           ELSE StateOk(Some(Slice(key, 1, size)), None)

SlashDictParse(key) ==
  IF Len(key) = 0 THEN StateErr(KeyEmptyKey)
  ELSE IF ~StartsWith(key, "/") THEN StateErr(KeyParseError(key))
  ELSE LET size == Len(key)
           idx == FindChar(Slice(key, 1, size), "/")
       IN  IF idx = 0 THEN StateErr(KeyEmptyKey)
           ELSE IF idx # NoneIdx
           THEN LET pivot == idx + 1
                    current == Slice(key, 1, pivot)
                IN  IF FindWhitespace(current) # NoneIdx
                    THEN StateErr(KeyParseError(current))
                    ELSE StateOk(Some(current), Some(Slice(key, pivot, size)))
           ELSE StateOk(Some(Slice(key, 1, size)), None)

Tokenizers == {"Default", "Slash"}

\* T::dict_parse and T::index_parse for the tokenizer T of the call
DictParse(T, key) == IF T = "Default" THEN DefaultDictParse(key) ELSE SlashDictParse(key)
IndexParse(T, key) == IF T = "Default" THEN DefaultIndexParse(key) ELSE SlashIndexParse(key)

(***************************************************************************)
(* The tree value of the test suite, src/src/lib.rs: a literal, a          *)
(* dictionary (a map from strings to values) or an array.                  *)
(***************************************************************************)
Literal(n) == [kind |-> "Literal", lit |-> n, items |-> <<>>, map |-> <<>>]
Array(items) == [kind |-> "Array", lit |-> 0, items |-> items, map |-> <<>>]
Dictionary(map) == [kind |-> "Dictionary", lit |-> 0, items |-> <<>>, map |-> map]

\* Result<Value, Error>
NoValue == Literal(-1)
Ok(val) == [ok |-> TRUE, val |-> val, err |-> NoError]
Err(e) == [ok |-> FALSE, val |-> NoValue, err |-> e]

RECURSIVE ToDecimal(_)
ToDecimal(n) ==
  IF n < 10 THEN <<DigitChar(n)>> ELSE Append(ToDecimal(n \div 10), DigitChar(n % 10))

\* format!("[{}]", idx)
FormatIndex(idx) == <<"[">> \o ToDecimal(idx) \o <<"]">>

\* Value::query_kind; None is the empty string
KindNone == ""
QueryKind(self) ==
  CASE self.kind = "Literal" -> KindNone
    [] self.kind = "Array" -> KindArray
    [] self.kind = "Dictionary" -> KindDictionary

\* Value::query_dict
QueryDict(self, path) ==
  CASE self.kind = "Dictionary" ->
         IF path \in DOMAIN self.map THEN Ok(self.map[path]) ELSE Err(KeyNotExist(path))
    [] self.kind = "Array" -> Err(TypeError(path, KindArray, KindDictionary))
    [] OTHER -> Err(UnknownType(path))

\* query_array reading idx as a 1-based position
QueryArrayOneBased(self, idx) ==
  CASE self.kind = "Array" ->
         IF idx >= 1 /\ idx <= Len(self.items) THEN Ok(self.items[idx])
         ELSE Err(IndexNotExist(idx))
    [] self.kind = "Dictionary" ->
         Err(TypeError(FormatIndex(idx), KindDictionary, KindArray))
    [] OTHER -> Err(UnknownType(FormatIndex(idx)))

\* query_array clamping an index past the end to the last element
QueryArrayClamped(self, idx) ==
  CASE self.kind = "Array" ->
         IF idx < Len(self.items) THEN Ok(self.items[idx + 1])
         ELSE IF Len(self.items) > 0 THEN Ok(self.items[Len(self.items)])
         ELSE Err(IndexNotExist(idx))
    [] self.kind = "Dictionary" ->
         Err(TypeError(FormatIndex(idx), KindDictionary, KindArray))
    [] OTHER -> Err(UnknownType(FormatIndex(idx)))

\* Value::query_array
QueryArray(self, idx) ==
  CASE self.kind = "Array" ->
         IF idx < Len(self.items) THEN Ok(self.items[idx + 1]) ELSE Err(IndexNotExist(idx))
    [] self.kind = "Dictionary" ->
         Err(TypeError(FormatIndex(idx), KindDictionary, KindArray))
    [] OTHER -> Err(UnknownType(FormatIndex(idx)))

(***************************************************************************)
(* The inputs of a lookup: the trees and the paths.                        *)
(***************************************************************************)
\* 42
TreeLeaf == Literal(42)
\* {"a": {"b": 1}}
TreeNested == Dictionary(<<"a">> :> Dictionary(<<"b">> :> Literal(1)))
\* {"a": [1, 2]}
TreeDictOfArray == Dictionary(<<"a">> :> Array(<<Literal(1), Literal(2)>>))
\* [{"a": 12, "b": 2}]
TreeArrayOfDict ==
  Array(<<Dictionary((<<"a">> :> Literal(12)) @@ (<<"b">> :> Literal(2)))>>)
\* [[7], 8]
TreeArrayOfArray == Array(<<Array(<<Literal(7)>>), Literal(8)>>)
\* {"[0]": 5, "0": 6, " ": 7, "": 8}
TreeOddKeys ==
  Dictionary((<<"[", "0", "]">> :> Literal(5)) @@ (<<"0">> :> Literal(6))
             @@ (<<" ">> :> Literal(7)) @@ (<<>> :> Literal(8)))
\* {"a": {"a": [{"a": 3}]}}
TreeDeep ==
  Dictionary(<<"a">> :> Dictionary(<<"a">> :> Array(<<Dictionary(<<"a">> :> Literal(3))>>)))

Trees == {TreeLeaf, TreeNested, TreeDictOfArray, TreeArrayOfDict, TreeArrayOfArray,
          TreeOddKeys, TreeDeep}

\* A step of a path: a key or a position
StepKeys == {<<"a">>, <<"b">>, <<"0">>, <<"[", "0", "]">>}
StepIndexes == 0..2
KeyStep(k) == [isKey |-> TRUE, key |-> k, index |-> 0]
IndexStep(i) == [isKey |-> FALSE, key |-> <<>>, index |-> i]
Steps == {KeyStep(k) : k \in StepKeys} \cup {IndexStep(i) : i \in StepIndexes}

RECURSIVE StepSeqsUpTo(_)
StepSeqsUpTo(n) ==
  IF n = 0 THEN {<<>>}
  ELSE LET shorter == StepSeqsUpTo(n - 1)
       IN  shorter \cup {Append(s, x) : s \in {t \in shorter : Len(t) = n - 1}, x \in Steps}

\* The text of one step in each syntax: "[N]" and keys under DefaultTokenizer,
\* bare "N" and keys under SlashTokenizer
StepText(T, step) ==
  IF step.isKey THEN step.key
  ELSE IF T = "Default" THEN FormatIndex(step.index) ELSE ToDecimal(step.index)

\* The path of a sequence of steps: joined by '.' under DefaultTokenizer, each
\* prefixed by '/' under SlashTokenizer
RECURSIVE Render(_, _)
Render(T, steps) ==
  IF Len(steps) = 0 THEN <<>>
  ELSE IF T = "Slash" THEN <<"/">> \o StepText(T, Head(steps)) \o Render(T, Tail(steps))
  ELSE IF Len(steps) = 1 THEN StepText(T, Head(steps))
  ELSE StepText(T, Head(steps)) \o <<".">> \o Render(T, Tail(steps))

StepSeqs == StepSeqsUpTo(MaxSteps) \ {<<>>}

Strings == StringsUpTo(MaxLen)

\* Position steps at the edges of str::parse::<usize>, in both syntaxes: a '+'
\* sign, a sign alone, usize::MAX + 1, and more digits than usize::MAX has
MaxPlusOne == SubSeq(UsizeMaxDigits, 1, Len(UsizeMaxDigits) - 1) \o <<"6">>
EdgeNumbers ==
  {<<"+", "0">>, <<"+", "1">>, <<"+">>, <<"0", "+">>, MaxPlusOne,
   <<"0">> \o MaxPlusOne, UsizeMaxDigits \o <<"0">>, MaxPlusOne \o <<"a">>}
EdgePaths ==
  {<<"[">> \o n \o <<"]">> : n \in EdgeNumbers} \cup {<<"/">> \o n : n \in EdgeNumbers}

(***************************************************************************)
(* The state of one lookup.                                                *)
(***************************************************************************)
VARIABLES
  T,        \* the Tokenizer type parameter of lookup
  v,        \* lookup's value argument
  query,    \* lookup's path argument
  self,     \* the value of the current frame of Queryable::query
  path,     \* the path of the current frame
  tokens,   \* the current frame's T::dict_parse(path)
  pc,       \* "lookup", "parse" (before dict_parse), "match" (after it), "done"
  result,   \* what lookup returned
  steps,    \* the steps the path argument was written from; <<>> when the path
            \* was drawn character by character
  frames,   \* the path handed to every frame entered so far
  calls,    \* the query_dict and query_array calls made so far
  raised,   \* the first error a callee returned, and the callee
  earlier   \* the lookups the caller made before this one, and what they returned

vars ==
  <<T, v, query, self, path, tokens, pc, result, steps, frames, calls, raised, earlier>>

NoResult == Err(NoError)
NoTokens == StateErr(KeyEmptyKey)
NoIndexError == IndexParseError(<<>>)
NotRaised == [by |-> "", keyErr |-> KeyEmptyKey, indexErr |-> NoIndexError, err |-> NoError]
RaisedKeyError(e) == [NotRaised EXCEPT !.by = "dict_parse", !.keyErr = e]
RaisedIndexError(e) == [NotRaised EXCEPT !.by = "index_parse", !.indexErr = e]
RaisedError(by, e) == [NotRaised EXCEPT !.by = by, !.err = e]

DictCall(key) == [op |-> "query_dict", key |-> key, index |-> 0]
ArrayCall(idx) == [op |-> "query_array", key |-> <<>>, index |-> idx]

Init ==
  /\ T \in Tokenizers
  /\ v \in Trees
  /\ \/ steps \in StepSeqs /\ query = Render(T, steps)
     \/ steps = <<>> /\ query \in Strings \cup EdgePaths
  /\ self = NoValue
  /\ path = <<>>
  /\ tokens = NoTokens
  /\ pc = "lookup"
  /\ result = NoResult
  /\ frames = <<>>
  /\ calls = <<>>
  /\ raised = NotRaised
  /\ earlier = <<>>

\* lookup: v.query::<T>(&query.into())
Lookup ==
  /\ pc = "lookup"
  /\ self' = v
  /\ path' = query
  /\ frames' = <<query>>
  /\ pc' = "parse"
  /\ UNCHANGED <<T, v, query, steps, earlier, tokens, result, calls, raised>>

\* let tokens = T::dict_parse(path)?;
Tokenize ==
  /\ pc = "parse"
  /\ LET parsed == DictParse(T, path)
     IN  /\ tokens' = parsed
         /\ IF parsed.ok
            THEN /\ pc' = "match"
                 /\ UNCHANGED <<result, raised>>
            ELSE /\ pc' = "done"
                 /\ result' = Err(FromKeyError(parsed.err))
                 /\ raised' = RaisedKeyError(parsed.err)
  /\ UNCHANGED <<T, v, query, steps, earlier, self, path, frames, calls>>

\* The return of a frame and, with it, of the whole chain: every recursive call
\* is in tail position
Return(r) ==
  /\ pc' = "done"
  /\ result' = r
  /\ UNCHANGED <<self, path, frames>>

\* child.query::<T>(next)
Recurse(child, next) ==
  /\ pc' = "parse"
  /\ self' = child
  /\ path' = next
  /\ frames' = Append(frames, next)
  /\ UNCHANGED result

\* the dictionary arm tokenizing the remainder before it looks the key up
MatchDictionaryEager ==
  /\ pc = "match"
  /\ QueryKind(self) = KindDictionary
  /\ IF tokens.current.some
     THEN LET key == tokens.current.v
              found == QueryDict(self, key)
              ahead == IF tokens.next.some THEN DictParse(T, tokens.next.v)
                       ELSE StateOk(None, None)
          IN  IF ~ahead.ok
              THEN /\ Return(Err(FromKeyError(ahead.err)))
                   /\ raised' = RaisedKeyError(ahead.err)
                   /\ UNCHANGED calls
              ELSE /\ calls' = Append(calls, DictCall(key))
                   /\ raised' = IF found.ok THEN raised
                                ELSE RaisedError("query_dict", found.err)
                   /\ IF tokens.next.some /\ found.ok
                      THEN Recurse(found.val, tokens.next.v)
                      ELSE Return(found)
     ELSE /\ Return(Err(EmptyPath(KindDictionary)))
          /\ raised' = RaisedError("query", EmptyPath(KindDictionary))
          /\ UNCHANGED calls
  /\ UNCHANGED <<T, v, query, steps, earlier, tokens>>

\* the dictionary arm moving the entry it finds out of the caller's tree
MatchDictionaryTakes ==
  /\ pc = "match"
  /\ QueryKind(self) = KindDictionary
  /\ IF tokens.current.some
     THEN LET key == tokens.current.v
              found == QueryDict(self, key)
          IN  /\ calls' = Append(calls, DictCall(key))
              /\ raised' = IF found.ok THEN raised ELSE RaisedError("query_dict", found.err)
              /\ v' = IF found.ok THEN found.val ELSE v
              /\ IF tokens.next.some /\ found.ok
                 THEN Recurse(found.val, tokens.next.v)
                 ELSE Return(found)
     ELSE /\ Return(Err(EmptyPath(KindDictionary)))
          /\ raised' = RaisedError("query", EmptyPath(KindDictionary))
          /\ UNCHANGED <<calls, v>>
  /\ UNCHANGED <<T, query, steps, earlier, tokens>>

\* Some(QueryKind::Dictionary) => match tokens { ... }
MatchDictionary ==
  /\ pc = "match"
  /\ QueryKind(self) = KindDictionary
  /\ IF tokens.current.some
     THEN LET key == tokens.current.v
              found == QueryDict(self, key)
          IN  /\ calls' = Append(calls, DictCall(key))
              /\ raised' = IF found.ok THEN raised ELSE RaisedError("query_dict", found.err)
              /\ IF tokens.next.some /\ found.ok
                 THEN Recurse(found.val, tokens.next.v)
                 ELSE Return(found)
     ELSE /\ Return(Err(EmptyPath(KindDictionary)))
          /\ raised' = RaisedError("query", EmptyPath(KindDictionary))
          /\ UNCHANGED calls
  /\ UNCHANGED <<T, v, query, steps, earlier, tokens>>

\* the array arm answering a failed query_array before a remainder with EmptyPath
MatchArrayMasksError ==
  /\ pc = "match"
  /\ QueryKind(self) = KindArray
  /\ IF tokens.current.some
     THEN LET key == tokens.current.v
              parsed == IndexParse(T, key)
          IN  IF ~parsed.ok
              THEN /\ Return(Err(FromIndexError(parsed.err)))
                   /\ raised' = RaisedIndexError(parsed.err)
                   /\ UNCHANGED calls
              ELSE LET index == parsed.index
                       found == QueryArray(self, index)
                   IN  /\ calls' = Append(calls, ArrayCall(index))
                       /\ raised' = IF found.ok THEN raised
                                    ELSE RaisedError("query_array", found.err)
                       /\ IF tokens.next.some
                          THEN IF found.ok
                               THEN Recurse(found.val, tokens.next.v)
                               ELSE Return(Err(EmptyPath(KindArray)))
                          ELSE Return(found)
     ELSE /\ Return(Err(EmptyPath(KindArray)))
          /\ raised' = RaisedError("query", EmptyPath(KindArray))
          /\ UNCHANGED calls
  /\ UNCHANGED <<T, v, query, steps, earlier, tokens>>

\* Some(QueryKind::Array) => match tokens { ... }
MatchArray ==
  /\ pc = "match"
  /\ QueryKind(self) = KindArray
  /\ IF tokens.current.some
     THEN LET key == tokens.current.v
              parsed == IndexParse(T, key)
          IN  IF ~parsed.ok
              THEN /\ Return(Err(FromIndexError(parsed.err)))
                   /\ raised' = RaisedIndexError(parsed.err)
                   /\ UNCHANGED calls
              ELSE LET index == parsed.index
                       found == QueryArray(self, index)
                   IN  /\ calls' = Append(calls, ArrayCall(index))
                       /\ raised' = IF found.ok THEN raised
                                    ELSE RaisedError("query_array", found.err)
                       /\ IF tokens.next.some
                          THEN IF found.ok
                               THEN Recurse(found.val, tokens.next.v)
                               ELSE Return(Err(IndexNotExist(index)))
                          ELSE Return(found)
     ELSE /\ Return(Err(EmptyPath(KindArray)))
          /\ raised' = RaisedError("query", EmptyPath(KindArray))
          /\ UNCHANGED calls
  /\ UNCHANGED <<T, v, query, steps, earlier, tokens>>

\* the leaf arm reporting the path as a missing key
MatchLeafKeyNotExist ==
  /\ pc = "match"
  /\ QueryKind(self) = KindNone
  /\ Return(Err(KeyNotExist(path)))
  /\ raised' = RaisedError("query", KeyNotExist(path))
  /\ UNCHANGED <<T, v, query, steps, earlier, tokens, calls>>

\* the leaf arm reporting the first step of the path only
MatchLeafFirstStep ==
  /\ pc = "match"
  /\ QueryKind(self) = KindNone
  /\ Return(Err(UnknownType(tokens.current.v)))
  /\ raised' = RaisedError("query", UnknownType(tokens.current.v))
  /\ UNCHANGED <<T, v, query, steps, earlier, tokens, calls>>

\* _ => Err(Error::UnknownType(String::from(path)))
MatchLeaf ==
  /\ pc = "match"
  /\ QueryKind(self) = KindNone
  /\ Return(Err(UnknownType(path)))
  /\ raised' = RaisedError("query", UnknownType(path))
  /\ UNCHANGED <<T, v, query, steps, earlier, tokens, calls>>

Next == Lookup \/ Tokenize \/ MatchDictionary \/ MatchArray \/ MatchLeaf

Spec == Init /\ [][Next]_vars

(***************************************************************************)
(* A caller that looks the same tree up more than once, as the tests do:   *)
(* again with the same tokenizer and path, or with the other tokenizer and *)
(* the same steps written in its syntax.                                   *)
(***************************************************************************)
MaxLookups == 2

Returned == [T |-> T, v |-> v, query |-> query, result |-> result]

\* let found = lookup::<_, _, T2>(&sample, ...), after a lookup that returned: the
\* frames of the returned lookup are gone, the tree is the caller's
LookupAgain ==
  /\ pc = "done"
  /\ Len(earlier) < MaxLookups - 1
  /\ earlier' = Append(earlier, Returned)
  /\ \E T2 \in Tokenizers :
       /\ T2 # T => steps # <<>>
       /\ T' = T2
       /\ query' = IF T2 = T THEN query ELSE Render(T2, steps)
  /\ self' = NoValue
  /\ path' = <<>>
  /\ tokens' = NoTokens
  /\ result' = NoResult
  /\ frames' = <<>>
  /\ calls' = <<>>
  /\ raised' = NotRaised
  /\ pc' = "lookup"
  /\ UNCHANGED <<v, steps>>

NextTwice == Next \/ LookupAgain

SpecTwice == Init /\ [][NextTwice]_vars

Done == pc = "done"

\* the current frame's tokens are T::dict_parse(path) of the current frame's path
Parsed == pc \in {"match", "done"}

IsLeaf(val) == val.kind = "Literal"

(***************************************************************************)
(* C1.                                                                     *)
(***************************************************************************)
\* every step names a key of the dictionary, or a position of the array, found
\* at its level
RECURSIVE Resolves(_, _)
Resolves(val, ss) ==
  \/ Len(ss) = 0
  \/ /\ Len(ss) > 0
     /\ IF Head(ss).isKey
        THEN /\ val.kind = "Dictionary"
             /\ Head(ss).key \in DOMAIN val.map
             /\ Resolves(val.map[Head(ss).key], Tail(ss))
        ELSE /\ val.kind = "Array"
             /\ Head(ss).index < Len(val.items)
             /\ Resolves(val.items[Head(ss).index + 1], Tail(ss))

\* the sub-value a resolving sequence of steps leads to
RECURSIVE SubValue(_, _)
SubValue(val, ss) ==
  IF Len(ss) = 0 THEN val
  ELSE IF Head(ss).isKey THEN SubValue(val.map[Head(ss).key], Tail(ss))
  ELSE SubValue(val.items[Head(ss).index + 1], Tail(ss))

\* C1: a lookup whose path renders, in the syntax of its tokenizer, one or more
\* steps that each name an existing key or an in-range position of the value at
\* their level returns Ok with the sub-value those steps lead to, one level per
\* step, left to right.
C1_ResolvingPathReturnsSubValue ==
  (Done /\ Len(steps) > 0 /\ Resolves(v, steps)) => result = Ok(SubValue(v, steps))

\* three resolving steps through dictionaries and an array
C1_Witness ==
  /\ Done
  /\ Len(steps) = 3
  /\ Resolves(v, steps)
  /\ \E i, j \in 1..3 : steps[i].isKey /\ ~steps[j].isKey
  /\ result.ok

(***************************************************************************)
(* C2.                                                                     *)
(***************************************************************************)
\* C2, as stated: a lookup on a leaf always ends in Err(UnknownType), whatever the
\* path.
C2_LeafAlwaysUnknownType ==
  (Done /\ IsLeaf(v)) => (~result.ok /\ result.err.tag = "UnknownType")

\* C2, amended: a lookup on a leaf ends in Err(UnknownType(path)) when dict_parse
\* accepts the path and in the tokenizer's KeyError when it rejects it (the empty
\* path included); it never ends in EmptyPath or KeyNotExist.
C2_LeafUnknownTypeOrKeyError ==
  (Done /\ IsLeaf(v)) =>
    /\ ~result.ok
    /\ result.err.tag = (IF tokens.ok THEN "UnknownType" ELSE "KeyError")
    /\ tokens.ok => result.err.text = query
    /\ ~tokens.ok => result.err.sub = tokens.err.tag /\ result.err.text = tokens.err.text

\* a leaf queried with a path the tokenizer accepts
C2_Witness ==
  Done /\ IsLeaf(v) /\ Len(query) > 0 /\ tokens.ok /\ result.err.tag = "UnknownType"

(***************************************************************************)
(* C3.                                                                     *)
(***************************************************************************)
\* C3, as stated: the empty path on a dictionary or an array ends in
\* Err(EmptyPath(kind)), kind being the value's QueryKind.
C3_EmptyPathOnContainer ==
  (Done /\ Len(query) = 0 /\ ~IsLeaf(v)) =>
    (~result.ok /\ result.err.tag = "EmptyPath" /\ result.err.kind = v.kind)

\* C3, amended: the empty path on a dictionary or an array ends in
\* Err(KeyError(EmptyKey)) under both tokenizers, dict_parse rejecting it before the
\* value's kind is looked at; no query_dict or query_array call is made.
C3_EmptyPathIsEmptyKey ==
  (Done /\ Len(query) = 0 /\ ~IsLeaf(v)) =>
    /\ ~result.ok
    /\ result.err.tag = "KeyError"
    /\ result.err.sub = "EmptyKey"
    /\ Len(calls) = 0

\* the empty path on an array, under DefaultTokenizer
C3_Witness ==
  Done /\ Len(query) = 0 /\ v.kind = "Array" /\ T = "Default" /\ ~result.ok

(***************************************************************************)
(* C4.                                                                     *)
(***************************************************************************)
\* C4: the step of a dictionary frame whose key is absent from the dictionary ends
\* the lookup with Err(KeyNotExist(key)), key being the step dict_parse extracted;
\* it enters no further frame and makes no call other than that query_dict,
\* whatever the remainder is.
C4_AbsentKeyEndsLookup ==
  [][(/\ pc = "match"
      /\ self.kind = "Dictionary"
      /\ tokens.current.some
      /\ tokens.current.v \notin DOMAIN self.map)
     => (/\ pc' = "done"
         /\ result' = Err(KeyNotExist(tokens.current.v))
         /\ frames' = frames
         /\ calls' = Append(calls, DictCall(tokens.current.v)))]_vars

\* an absent key followed by a remainder that dict_parse rejects
C4_Witness ==
  /\ Done
  /\ result.err.tag = "KeyNotExist"
  /\ tokens.next.some
  /\ ~DictParse(T, tokens.next.v).ok
  /\ Len(frames) > 1

(***************************************************************************)
(* C5.                                                                     *)
(***************************************************************************)
\* C5: the step of an array frame whose position step parses to an index at or
\* past the array's length ends the lookup with Err(IndexNotExist(index)), with
\* and without a remainder, and enters no further frame.
C5_IndexPastEndEndsLookup ==
  [][(/\ pc = "match"
      /\ self.kind = "Array"
      /\ tokens.current.some
      /\ IndexParse(T, tokens.current.v).ok
      /\ IndexParse(T, tokens.current.v).index >= Len(self.items))
     => (/\ pc' = "done"
         /\ result' = Err(IndexNotExist(IndexParse(T, tokens.current.v).index))
         /\ frames' = frames)]_vars

\* an index past the end, followed by a remainder
C5_Witness ==
  /\ Done
  /\ result.err.tag = "IndexNotExist"
  /\ result.err.idx >= Len(self.items)
  /\ tokens.next.some
  /\ Len(frames) > 1

(***************************************************************************)
(* C6.                                                                     *)
(***************************************************************************)
\* a string without whitespace, '.', '[' or ']'
IsPlainKey(s) ==
  Len(s) > 0 /\ \A i \in 1..Len(s) : ~IsWhitespace(s[i]) /\ s[i] \notin {".", "[", "]"}

\* '[', one or more digits, ']'
IsBracketIndex(s) ==
  /\ Len(s) > 2
  /\ s[1] = "["
  /\ s[Len(s)] = "]"
  /\ \A i \in 2..(Len(s) - 1) : IsDigit(s[i])

\* C6, as stated: under DefaultTokenizer a position step "[N]" applied to a
\* dictionary, and a key step applied to an array, end the lookup in Err(TypeError).
C6_MismatchIsTypeError ==
  (/\ Done
   /\ T = "Default"
   /\ tokens.ok
   /\ tokens.current.some
   /\ \/ self.kind = "Dictionary" /\ IsBracketIndex(tokens.current.v)
      \/ self.kind = "Array" /\ IsPlainKey(tokens.current.v))
  => (~result.ok /\ result.err.tag = "TypeError")

(***************************************************************************)
(* C7.                                                                     *)
(***************************************************************************)
\* the Error a callee's error becomes: a KeyError or an IndexError wrapped in the
\* variant of its name with its payload, an Error as it is
AsError(r) ==
  CASE r.by = "dict_parse" ->
         [tag |-> "KeyError", text |-> r.keyErr.text, idx |-> 0, sub |-> r.keyErr.tag,
          kind |-> "", expected |-> "", found |-> ""]
    [] r.by = "index_parse" ->
         [tag |-> "IndexError", text |-> r.indexErr.text, idx |-> 0,
          sub |-> r.indexErr.tag, kind |-> r.indexErr.kind, expected |-> "", found |-> ""]
    [] OTHER -> r.err

LeadingStep(tk, p) ==
  LET body == IF tk = "Slash" /\ StartsWith(p, "/") THEN Tail(p) ELSE p
      sep == IF tk = "Slash" THEN "/" ELSE "."
      at == FindChar(body, sep)
  IN  IF at = NoneIdx THEN body ELSE Slice(body, 0, at)

\* empty, or whitespace only
IsBlank(s) == \A i \in 1..Len(s) : IsWhitespace(s[i])

\* C8, as stated: dict_parse rejects every path whose leading step is empty or
\* whitespace only, with or without a remainder.
C8_BlankLeadingStepRejected ==
  (Parsed /\ IsBlank(LeadingStep(T, path))) => ~tokens.ok

(***************************************************************************)
(* C9.                                                                     *)
(***************************************************************************)
\* C9: DefaultTokenizer::dict_parse, when it accepts a path holding a '.', returns
\* as current step the text before the first '.', which holds no '.', and as
\* remainder all the text after that '.'; when it accepts a path without '.', it
\* returns (path, None).
C9_DefaultSplitsAtFirstDot ==
  (Parsed /\ T = "Default" /\ tokens.ok) =>
    IF \E i \in 1..Len(path) : path[i] = "."
    THEN LET cur == tokens.current.v
         IN  /\ tokens.current.some
             /\ tokens.next.some
             /\ \A i \in 1..Len(cur) : cur[i] # "."
             /\ Len(path) > Len(cur)
             /\ cur = SubSeq(path, 1, Len(cur))
             /\ path[Len(cur) + 1] = "."
             /\ tokens.next.v = SubSeq(path, Len(cur) + 2, Len(path))
    ELSE tokens.current = Some(path) /\ tokens.next = None

\* an accepted path of three steps: the remainder holds the second '.'
C9_Witness ==
  /\ Parsed
  /\ T = "Default"
  /\ tokens.ok
  /\ tokens.next.some
  /\ \E i \in 1..Len(tokens.next.v) : tokens.next.v[i] = "."
  /\ Len(tokens.current.v) = 1

(***************************************************************************)
(* C10.                                                                    *)
(***************************************************************************)
\* the parts of a State put together again
Rejoin(tk, st) ==
  IF tk = "Default"
  THEN IF st.next.some THEN st.current.v \o <<".">> \o st.next.v ELSE st.current.v
  ELSE <<"/">> \o st.current.v \o (IF st.next.some THEN st.next.v ELSE <<>>)

\* C10: for a path dict_parse accepts, current ++ "." ++ remainder under
\* DefaultTokenizer, and "/" ++ current ++ remainder under SlashTokenizer, is the
\* path again (without the remainder: current, and "/" ++ current).
C10_SplitRoundTrip ==
  (Parsed /\ tokens.ok) => (tokens.current.some /\ Rejoin(T, tokens) = path)

\* a SlashTokenizer split with a remainder of more than its '/'
C10_Witness ==
  /\ Parsed
  /\ T = "Slash"
  /\ tokens.ok
  /\ tokens.next.some
  /\ Len(tokens.next.v) > 1
  /\ tokens.next.v[1] = "/"

(***************************************************************************)
(* C11.                                                                    *)
(***************************************************************************)
\* C11: under SlashTokenizer a lookup with the empty path, or with a path that
\* begins with "//", on a dictionary, an array or a leaf, returns
\* Err(KeyError(EmptyKey)) and makes no query_dict or query_array call.
C11_SlashEmptyStepIsEmptyKey ==
  (/\ Done
   /\ T = "Slash"
   /\ \/ Len(query) = 0
      \/ Len(query) >= 2 /\ query[1] = "/" /\ query[2] = "/")
  => /\ result.ok = FALSE
     /\ result.err.tag = "KeyError"
     /\ result.err.sub = "EmptyKey"
     /\ result.err.text = <<>>
     /\ Len(calls) = 0

\* a path that goes on after "//", on a dictionary that holds the key ""
C11_Witness ==
  /\ Done
  /\ T = "Slash"
  /\ Len(query) > 2
  /\ query[1] = "/"
  /\ query[2] = "/"
  /\ v = TreeOddKeys

(***************************************************************************)
(* C12.                                                                    *)
(***************************************************************************)
\* C12: SlashTokenizer::dict_parse rejects a non-empty path that does not begin
\* with '/' with KeyError::ParseError of the whole path, and the lookup ends there
\* with that error, no query_dict or query_array call made.
C12_SlashNeedsLeadingSlash ==
  (Parsed /\ T = "Slash" /\ Len(path) > 0 /\ path[1] # "/") =>
    /\ ~tokens.ok
    /\ tokens.err.tag = "ParseError"
    /\ tokens.err.text = path
    /\ Done
    /\ result.ok = FALSE
    /\ result.err.tag = "KeyError"
    /\ result.err.sub = "ParseError"
    /\ result.err.text = query
    /\ Len(calls) = 0

\* a path with a separator further on, on a dictionary holding its first step
C12_Witness ==
  /\ Done
  /\ T = "Slash"
  /\ Len(query) > 2
  /\ query[1] = "a"
  /\ query[2] = "/"
  /\ v = TreeNested

(***************************************************************************)
(* C13.                                                                    *)
(***************************************************************************)
\* one or more decimal digits
IsDigits(s) == Len(s) > 0 /\ \A i \in 1..Len(s) : IsDigit(s[i])

\* '[', anything, ']', more than two characters long
IsBracketed(s) == Len(s) > 2 /\ s[1] = "[" /\ s[Len(s)] = "]"

\* the text of a position token that is to be a number
NumberText(tk, tok) == IF tk = "Default" THEN Slice(tok, 1, Len(tok) - 1) ELSE tok

\* a position token as the claim describes it: '[' digits ']' under
\* DefaultTokenizer, bare digits under SlashTokenizer, in the range of usize
IsStrictIndex(tk, tok) ==
  /\ tk = "Default" => IsBracketed(tok)
  /\ IsDigits(NumberText(tk, tok))
  /\ ~ExceedsUsize(NumberText(tk, tok))

\* the last frame is an array's, and dict_parse gave it a step
InArrayFrame == Done /\ self.kind = "Array" /\ tokens.ok /\ tokens.current.some

\* C13, as stated: a position token that is not '[' digits ']' (DefaultTokenizer),
\* not bare digits (SlashTokenizer) or out of the range of usize is rejected with
\* an IndexError that carries the token's text.
C13_RejectedTokenCarriesText ==
  (InArrayFrame /\ ~IsStrictIndex(T, tokens.current.v)) =>
    /\ result.ok = FALSE
    /\ result.err.tag = "IndexError"
    /\ result.err.text = tokens.current.v

(***************************************************************************)
(* C14.                                                                    *)
(***************************************************************************)
\* C14, as stated: DefaultTokenizer::dict_parse answers a path whose leading step
\* (the text before the first '.') is empty or whitespace only with
\* Err(KeyError::EmptyKey).
C14_DefaultBlankStepIsEmptyKey ==
  (Parsed /\ T = "Default" /\ IsBlank(LeadingStep(T, path))) =>
    (~tokens.ok /\ tokens.err = KeyEmptyKey)

IsSyntaxFreeKey(s) ==
  /\ Len(s) > 0
  /\ \A i \in 1..Len(s) : ~IsWhitespace(s[i]) /\ s[i] \notin {".", "/", "[", "]"}

\* every step the descent applies is a key step on a dictionary or a position
\* step on an array; the descent applies no step after one that finds nothing
RECURSIVE WellTyped(_, _)
WellTyped(val, ss) ==
  \/ Len(ss) = 0
  \/ /\ Len(ss) > 0
     /\ IF Head(ss).isKey
        THEN /\ val.kind = "Dictionary"
             /\ IsSyntaxFreeKey(Head(ss).key)
             /\ Head(ss).key \in DOMAIN val.map =>
                  WellTyped(val.map[Head(ss).key], Tail(ss))
        ELSE /\ val.kind = "Array"
             /\ Head(ss).index < Len(val.items) =>
                  WellTyped(val.items[Head(ss).index + 1], Tail(ss))

\* C16: for a well-typed sequence of steps, the lookup with DefaultTokenizer on
\* the steps joined by '.', positions written "[N]", and the lookup with
\* SlashTokenizer on the steps each prefixed by '/', positions written "N", return
\* the same result on the same tree: the same Ok value, or the same KeyNotExist or
\* IndexNotExist error.
C16_SyntaxesAgree ==
  (Done /\ Len(steps) > 0 /\ WellTyped(v, steps)) =>
    /\ result.ok \/ result.err.tag \in {"KeyNotExist", "IndexNotExist"}
    /\ \A i \in 1..Len(earlier) : earlier[i].T # T => earlier[i].result = result

\* three steps, keys and positions, looked up in one syntax and then in the other
C16_Witness ==
  /\ Done
  /\ Len(earlier) = 1
  /\ earlier[1].T # T
  /\ Len(steps) = 3
  /\ WellTyped(v, steps)
  /\ \E i, j \in 1..3 : steps[i].isKey /\ ~steps[j].isKey
  /\ result.ok

(***************************************************************************)
(* C17.                                                                    *)
(***************************************************************************)
\* C17, as stated: a successful dict_parse never returns Some("") as remainder,
\* and no frame of query after the first is entered with the empty path.
C17_RemainderNeverEmpty ==
  /\ (Parsed /\ tokens.ok /\ tokens.next.some) => Len(tokens.next.v) > 0
  /\ \A i \in 2..Len(frames) : Len(frames[i]) > 0

(***************************************************************************)
(* C18.                                                                    *)
(***************************************************************************)
\* s is the end of t
IsSuffix(s, t) == Len(s) <= Len(t) /\ s = SubSeq(t, Len(t) - Len(s) + 1, Len(t))

Count(s, c) == Cardinality({i \in 1..Len(s) : s[i] = c})

\* The steps a path is written in: the pieces between its separators, the piece
\* before SlashTokenizer's leading '/' not counted
StepCount(tk, p) ==
  IF tk = "Default" THEN Count(p, ".") + 1
  ELSE IF StartsWith(p, "/") THEN Count(p, "/")
  ELSE Count(p, "/") + 1

\* C18: the path of every frame of query after the first is a proper suffix of,
\* and shorter than, the path of the frame that called it; there are never more
\* frames than the path has steps; a lookup that has not returned can take its
\* next step, and it has a result exactly when it has returned; a lookup that
\* returns Ok has made exactly one query_dict or query_array call per step of the
\* path.
C18_FramesShrinkToOneResult ==
  /\ \A i \in 2..Len(frames) :
       Len(frames[i]) < Len(frames[i - 1]) /\ IsSuffix(frames[i], frames[i - 1])
  /\ Len(frames) <= StepCount(T, query)
  /\ ~Done => (result = NoResult /\ ENABLED Next)
  /\ Done => result # NoResult
  /\ (Done /\ result.ok) =>
       (Len(calls) = StepCount(T, query) /\ Len(frames) = StepCount(T, query))

\* a lookup of three frames that returned
C18_Witness ==
  /\ Done
  /\ Len(frames) = 3
  /\ StepCount(T, query) = 3
  /\ Len(frames[3]) < Len(frames[2])
  /\ Len(frames[2]) < Len(frames[1])

(***************************************************************************)
(* C19.                                                                    *)
(***************************************************************************)
\* C19, as stated: dict_parse rejects, with a KeyError, every path whose leading
\* step holds a whitespace character, whether the step is followed by a remainder
\* or is the last or only step.
C19_WhitespaceStepRejected ==
  (Parsed /\ FindWhitespace(LeadingStep(T, path)) # NoneIdx) =>
    (~tokens.ok /\ tokens.err.tag \in {"EmptyKey", "ParseError"})

(***************************************************************************)
(* C20.                                                                    *)
(***************************************************************************)
\* C20: a frame of query entered on a leaf with a path its tokenizer accepts
\* returns Err(UnknownType(p)), p being the whole path of that frame, all steps not
\* yet taken, with its leading '/' under SlashTokenizer; no query_dict or
\* query_array call is made for that frame.
C20_LeafReportsWholeRemainder ==
  (Done /\ IsLeaf(self) /\ tokens.ok) =>
    /\ result = Err(UnknownType(frames[Len(frames)]))
    /\ path = frames[Len(frames)]
    /\ T = "Slash" => path[1] = "/"
    /\ Len(calls) = Len(frames) - 1
    /\ raised = RaisedError("query", UnknownType(path))

\* a leaf reached by one step, with two steps still to take
C20_Witness ==
  /\ Done
  /\ IsLeaf(self)
  /\ tokens.ok
  /\ Len(frames) = 2
  /\ tokens.next.some
  /\ result.err.tag = "UnknownType"
  /\ Len(result.err.text) > Len(tokens.current.v)

(***************************************************************************)
(* C21.                                                                    *)
(***************************************************************************)
\* C21: under both tokenizers every state a successful dict_parse returns holds a
\* current step, so no frame of query takes an EmptyPath arm: no lookup returns
\* Err(EmptyPath(_)), and no callee raises it.
C21_EmptyPathUnreachable ==
  /\ (Parsed /\ tokens.ok) => tokens.current.some
  /\ result.err.tag # "EmptyPath"
  /\ raised.err.tag # "EmptyPath"

\* "/" on a dictionary or an array: dict_parse accepts it with the empty string as
\* current step, and the frame takes the base-case arm
C21_Witness ==
  /\ Done
  /\ T = "Slash"
  /\ ~IsLeaf(self)
  /\ tokens.ok
  /\ tokens.current.some
  /\ Len(tokens.current.v) = 0
  /\ ~tokens.next.some
  /\ Len(calls) = 1

=============================================================================
